---- MODULE Spec2Model ----
(***************************************************************************)
(* Scope 3 value-chain dashboard (src/scope3_dashboard.py): the factor     *)
(* registry, the calculation engine, the data-quality scorer and the       *)
(* session ledger that the "Add Entry" handler appends to.                 *)
(*                                                                         *)
(* Numbers.  Python floats are modelled as exact rationals [n, d] in       *)
(* lowest terms (d > 0); a square root is kept exact and only its rounded  *)
(* value is computed.  Floating-point rounding error, NaN, infinities and  *)
(* float overflow are outside the model.  Stored values keep the decimals  *)
(* the code rounds to: "Emissions (kgCO2e)" in hundredths, "Data Quality   *)
(* Score" in tenths, "Combined Uncertainty (%)" in hundredths.             *)
(*                                                                         *)
(* Dicts.  A Python dict is a sequence of <<key, value>> pairs in          *)
(* insertion order (the order `for key in d` and str(d) follow).           *)
(***************************************************************************)
EXTENDS Integers, Sequences, FiniteSets, TLC

VARIABLES
    factors,    \* the EMISSION_FACTORS table in force
    data,       \* st.session_state.data: the ledger, a sequence of rows
    qlog,       \* history: the quality widgets' values at each add, by row
    warnings,   \* the st.sidebar.warning messages of the last script run
    status,     \* how the last script run ended: "ok", "added" or an exception
    call,       \* the arguments of a direct call of an engine function
    ret         \* what that call returned or raised ("pending" before it)

vars == <<factors, data, qlog, warnings, status, call, ret>>

----------------------------------------------------------------------------
(* Exact rational arithmetic. *)

Abs(x) == IF x < 0 THEN -x ELSE x

RECURSIVE GCD(_, _)
GCD(a, b) == IF b = 0 THEN a ELSE GCD(b, a % b)

Rat(n, d) ==
    LET g == GCD(Abs(n), Abs(d))
        s == IF d < 0 THEN -1 ELSE 1
    IN  [n |-> (s * n) \div g, d |-> (s * d) \div g]

Num(k) == [n |-> k, d |-> 1]

RMul(x, y) == Rat(x.n * y.n, x.d * y.d)
RAdd(x, y) == Rat(x.n * y.d + y.n * x.d, x.d * y.d)
RDiv(x, y) == Rat(x.n * y.d, x.d * y.n)
RIsZero(x) == x.n = 0

(* Python's round(x, places) on an exact value: the nearest multiple of    *)
(* 10^-places, a tie going to the even one.  The result is the integer     *)
(* count of such multiples; scale is 10^places.                            *)
RoundHalfEven(x, scale) ==
    LET num == x.n * scale
        q   == num \div x.d
        r2  == 2 * (num % x.d)
    IN  IF r2 < x.d THEN q
        ELSE IF r2 > x.d THEN q + 1
        ELSE IF q % 2 = 0 THEN q ELSE q + 1

(* The integer nearest to sqrt(s), for an integer s >= 0.  sqrt(s) is      *)
(* never half-way between two integers, so no tie rule is needed.          *)
RECURSIVE SqrtSearch(_, _, _)
SqrtSearch(s, lo, hi) ==
    IF lo >= hi THEN lo
    ELSE LET mid == (lo + hi) \div 2
         IN  IF (2 * mid + 1) * (2 * mid + 1) > 4 * s
             THEN SqrtSearch(s, lo, mid)
             ELSE SqrtSearch(s, mid + 1, hi)

RoundSqrt(s) == SqrtSearch(s, 0, 23000)

----------------------------------------------------------------------------
(* Strings and dicts. *)

(* needle in hay *)
Substring(hay, needle) ==
    \E i \in 1..(Len(hay) - Len(needle) + 1) :
        SubSeq(hay, i, i + Len(needle) - 1) = needle

Keys(d) == {d[i][1] : i \in DOMAIN d}
Has(d, k) == k \in Keys(d)
Get(d, k) == d[CHOOSE i \in DOMAIN d : d[i][1] = k][2]
GetOr(d, k, default) == IF Has(d, k) THEN Get(d, k) ELSE default
Put(d, k, v) == Append(d, <<k, v>>)

----------------------------------------------------------------------------
(* 1. Category definitions. *)

CATEGORIES ==
    <<"Purchased Goods and Services",
      "Capital Goods",
      "Fuel & Energy Related Activities",
      "Upstream Transportation & Distribution",
      "Waste Generated in Operations",
      "Business Travel",
      "Employee Commuting",
      "Upstream Leased Assets",
      "Downstream Transportation & Distribution",
      "Processing of Sold Products",
      "Use of Sold Products",
      "End-of-Life Treatment of Sold Products",
      "Downstream Leased Assets",
      "Franchises",
      "Investments">>

(* 2. Emission factor databases. *)

EMISSION_FACTORS ==
    [EPA |->
        <<<<"Business Travel - Air Economy (kgCO2e/pkm)", Rat(158, 1000)>>,
          <<"Business Travel - Air Business (kgCO2e/pkm)", Rat(244, 1000)>>,
          <<"Business Travel - Hotel (kgCO2e/night)", Rat(145, 10)>>,
          <<"Transport - Road Freight (kgCO2e/tonne-km)", Rat(122, 1000)>>,
          <<"Use Phase - US Grid Electricity (kgCO2e/kWh)", Rat(387, 1000)>> >>,
     DEFRA |->
        <<<<"Business Travel - Air Economy (kgCO2e/pkm)", Rat(146, 1000)>>,
          <<"Business Travel - Air Business (kgCO2e/pkm)", Rat(231, 1000)>>,
          <<"Business Travel - Hotel (kgCO2e/night)", Rat(138, 10)>>,
          <<"Transport - HGV Freight (kgCO2e/tonne-km)", Rat(96, 1000)>>,
          <<"Use Phase - UK Grid Electricity (kgCO2e/kWh)", Rat(193, 1000)>> >>]

FACTOR_SOURCES ==
    [EPA |-> "United States Environmental Protection Agency (EPA) - Emissions Factors Hub",
     DEFRA |-> "UK Department for Environment, Food & Rural Affairs (DEFRA) - GHG Conversion Factors"]

METHOD_HIERARCHY ==
    <<<<"Supplier-Specific", 5>>,
      <<"Activity-Based", 4>>,
      <<"Average-Data", 3>>,
      <<"Spend-Based", 2>>,
      <<"Proxy Estimate", 1>> >>

(* The substring tests of the code, answered once for the texts the model  *)
(* handles (the category labels and the factor names) and computed for any *)
(* other text.                                                             *)
Needles == {"Transportation", "Transport -", "Grid Electricity"}
KnownTexts ==
    {CATEGORIES[i] : i \in DOMAIN CATEGORIES}
    \cup UNION {{EMISSION_FACTORS[s][i][1] : i \in DOMAIN EMISSION_FACTORS[s]} :
                  s \in DOMAIN EMISSION_FACTORS}
SubstringsOf == [hay \in KnownTexts |-> {needle \in Needles : Substring(hay, needle)}]

Contains(hay, needle) ==
    IF hay \in KnownTexts /\ needle \in Needles
    THEN needle \in SubstringsOf[hay]
    ELSE Substring(hay, needle)

(* next((key for key in d if needle in key), None) *)
FirstKeyContaining(d, needle) ==
    LET hits == {i \in DOMAIN d : Contains(d[i][1], needle)}
    IN  IF hits = {} THEN "None"
        ELSE d[CHOOSE i \in hits : \A j \in hits : i <= j][1]

----------------------------------------------------------------------------
(* 3. Calculation engine. *)

KeyError(key) == [raised |-> TRUE, exc |-> "KeyError", args |-> <<key>>]
Returns(emissions, method) ==
    [raised |-> FALSE, emissions |-> emissions, method |-> method]

(* inputs[k] for each k of keys in turn: the first absent key raises. *)
FirstMissing(inputs, keys) ==
    LET missing == {i \in DOMAIN keys : ~Has(inputs, keys[i])}
    IN  IF missing = {} THEN "None"
        ELSE keys[CHOOSE i \in missing : \A j \in missing : i <= j]

BusinessTravelBranch(inputs) ==
    LET miss == FirstMissing(inputs,
                  <<"distance_km", "travel_factor", "hotel_nights", "hotel_factor">>)
    IN  IF miss # "None" THEN KeyError(miss)
        ELSE Returns(RAdd(RMul(Get(inputs, "distance_km"), Get(inputs, "travel_factor")),
                          RMul(Get(inputs, "hotel_nights"), Get(inputs, "hotel_factor"))),
                     "Activity-Based")

TransportationBranch(inputs) ==
    LET miss == FirstMissing(inputs, <<"distance_km", "weight_tonnes", "transport_factor">>)
    IN  IF miss # "None" THEN KeyError(miss)
        ELSE Returns(RMul(RMul(Get(inputs, "distance_km"), Get(inputs, "weight_tonnes")),
                          Get(inputs, "transport_factor")),
                     "Activity-Based")

attribution_factor(outstanding_amount, evic) ==
    IF ~RIsZero(evic) THEN RDiv(outstanding_amount, evic) ELSE Num(0)

(* Mutant: the attribution ratio is taken without the guard on evic. *)
InvestmentsBranch_Unguarded(inputs) ==
    LET miss == FirstMissing(inputs, <<"investee_emissions", "outstanding_amount", "evic">>)
    IN  IF miss # "None" THEN KeyError(miss)
        ELSE IF RIsZero(Get(inputs, "evic"))
        THEN [raised |-> TRUE, exc |-> "ZeroDivisionError",
              args |-> <<"float division by zero">>]
        ELSE Returns(RMul(Get(inputs, "investee_emissions"),
                          RDiv(Get(inputs, "outstanding_amount"), Get(inputs, "evic"))),
                     "PCAF Financed Emissions")

InvestmentsBranch(inputs) ==
    LET miss == FirstMissing(inputs, <<"investee_emissions", "outstanding_amount", "evic">>)
    IN  IF miss # "None" THEN KeyError(miss)
        ELSE Returns(RMul(Get(inputs, "investee_emissions"),
                          attribution_factor(Get(inputs, "outstanding_amount"),
                                             Get(inputs, "evic"))),
                     "PCAF Financed Emissions")

UseOfSoldProductsBranch(inputs) ==
    LET miss == FirstMissing(inputs, <<"lifetime_years", "annual_usage_kwh", "grid_factor">>)
    IN  IF miss # "None" THEN KeyError(miss)
        ELSE Returns(RMul(RMul(Get(inputs, "lifetime_years"), Get(inputs, "annual_usage_kwh")),
                          Get(inputs, "grid_factor")),
                     "Activity-Based")

(* Mutant: the default method label is misspelt. *)
GenericBranch_MisspeltDefault(inputs) ==
    Returns(RMul(GetOr(inputs, "quantity", Num(0)), GetOr(inputs, "generic_factor", Num(0))),
            GetOr(inputs, "method", "Average Data"))

GenericBranch(inputs) ==
    Returns(RMul(GetOr(inputs, "quantity", Num(0)), GetOr(inputs, "generic_factor", Num(0))),
            GetOr(inputs, "method", "Average-Data"))

(* Mutant: the transport pattern is tested by equality, not as a substring. *)
calculate_emissions_ExactTransport(category_name, inputs) ==
    IF category_name = "Business Travel" THEN BusinessTravelBranch(inputs)
    ELSE IF category_name = "Transportation" THEN TransportationBranch(inputs)
    ELSE IF category_name = "Investments" THEN InvestmentsBranch(inputs)
    ELSE IF category_name = "Use of Sold Products" THEN UseOfSoldProductsBranch(inputs)
    ELSE GenericBranch(inputs)

calculate_emissions(category_name, inputs) ==
    IF category_name = "Business Travel" THEN BusinessTravelBranch(inputs)
    ELSE IF Contains(category_name, "Transportation") THEN TransportationBranch(inputs)
    ELSE IF category_name = "Investments" THEN InvestmentsBranch(inputs)
    ELSE IF category_name = "Use of Sold Products" THEN UseOfSoldProductsBranch(inputs)
    ELSE GenericBranch(inputs)

(* Data-quality scorer.  With S = activity^2 + factor^2 the combined        *)
(* uncertainty is the real number sqrt(S), kept as [root |-> S].  The      *)
(* three sub-scores are carried in tenths of a quality point, with their   *)
(* weights applied:                                                        *)
(*   0.4 * hierarchy_score   * 100 = 80 * rank          tenths             *)
(*   0.3 * uncertainty_score * 100 = max(0, 300 - 3*U)  tenths             *)
(*   0.3 * coverage_score    * 100 = clamp(3*c, 0, 300) tenths             *)
(* so total_score is the real number whole - sqrt(root) tenths, kept as    *)
(* [whole, root] (3*U = sqrt(9*S)).                                        *)
(* Mutant: a label outside the table ranks 0. *)
hierarchy_score_UnknownRanksZero(method) == 80 * GetOr(METHOD_HIERARCHY, method, 0)

hierarchy_score(method) == 80 * GetOr(METHOD_HIERARCHY, method, 1)

combined_uncertainty(activity_uncertainty_pct, factor_uncertainty_pct) ==
    [root |-> activity_uncertainty_pct * activity_uncertainty_pct
              + factor_uncertainty_pct * factor_uncertainty_pct]

(* max(0.0, 1 - U/100): 0 once U >= 100, that is S >= 10000. *)
uncertainty_score(cu) ==
    IF cu.root >= 10000 THEN [whole |-> 0, root |-> 0]
    ELSE [whole |-> 300, root |-> 9 * cu.root]

(* Mutant: the coverage ratio is not clamped. *)
coverage_score_Unclamped(coverage_pct) == 3 * coverage_pct

(* Mutant: the uncovered share is scored instead of the covered one. *)
coverage_score_Inverted(coverage_pct) ==
    LET lower == IF 3 * coverage_pct > 0 THEN 3 * coverage_pct ELSE 0
    IN  300 - (IF lower < 300 THEN lower ELSE 300)

(* min(max(coverage_pct / 100, 0), 1) *)
coverage_score(coverage_pct) ==
    LET lower == IF 3 * coverage_pct > 0 THEN 3 * coverage_pct ELSE 0
    IN  IF lower < 300 THEN lower ELSE 300

total_score(method, cu, coverage_pct) ==
    LET u == uncertainty_score(cu)
    IN  [whole |-> hierarchy_score(method) + u.whole + coverage_score(coverage_pct),
         root  |-> u.root]

(* round(total_score, 1), in tenths, and round(combined_uncertainty, 2),   *)
(* in hundredths.                                                          *)
round1(t) == t.whole - RoundSqrt(t.root)
round2(cu) == RoundSqrt(10000 * cu.root)

(* math.sqrt raises ValueError on a negative argument. *)
calculate_data_quality(method, activity_uncertainty_pct, factor_uncertainty_pct, coverage_pct) ==
    LET cu == combined_uncertainty(activity_uncertainty_pct, factor_uncertainty_pct)
    IN  IF cu.root < 0
        THEN [raised |-> TRUE, exc |-> "ValueError", args |-> <<"math domain error">>]
        ELSE [raised |-> FALSE,
              score |-> round1(total_score(method, cu, coverage_pct)),
              combined_uncertainty |-> round2(cu)]

----------------------------------------------------------------------------
(* 4. Data entry: one run of the script body for the widget values w.      *)
(* w holds what each widget returns in this run: category, factor_dataset, *)
(* travel_class, number (number_input label -> value), method,            *)
(* quality_method, activity_uncertainty, factor_uncertainty, coverage_pct. *)

(* Mutant: a missing factor defaults to 1. *)
factor_or_zero_DefaultOne(source, key) == GetOr(source, key, Num(1))

(* EMISSION_FACTORS[factor_dataset].get(key, 0.0) *)
factor_or_zero(source, key) == GetOr(source, key, Num(0))

number_input(w, label) == w.number[label]

travel_key(travel_class) == "Business Travel - " \o travel_class \o " (kgCO2e/pkm)"
hotel_key == "Business Travel - Hotel (kgCO2e/night)"

TravelWarning(key, source) ==
    "Travel EF '" \o key \o "' not found for source " \o source \o "; using 0.0"
HotelWarning(key, source) ==
    "Hotel EF '" \o key \o "' not found for source " \o source \o "; using 0.0"
TransportWarning(source) ==
    "No transport emission factor found for source " \o source \o "; using 0.0"
GridWarning(source) ==
    "No grid electricity factor found for source " \o source \o "; using 0.0"

Collected(inputs, warned) == [inputs |-> inputs, warnings |-> warned]

BusinessTravelInputs(table, w) ==
    LET source        == table[w.factor_dataset]
        travel_factor == factor_or_zero(source, travel_key(w.travel_class))
        hotel_factor  == factor_or_zero(source, hotel_key)
    IN  Collected(
          <<<<"distance_km", number_input(w, "Travel distance (km)")>>,
            <<"travel_factor", travel_factor>>,
            <<"hotel_nights", number_input(w, "Hotel nights")>>,
            <<"hotel_factor", hotel_factor>> >>,
          (IF RIsZero(travel_factor)
             THEN <<TravelWarning(travel_key(w.travel_class), w.factor_dataset)>> ELSE <<>>)
          \o (IF RIsZero(hotel_factor)
             THEN <<HotelWarning(hotel_key, w.factor_dataset)>> ELSE <<>>))

TransportInputs(table, w) ==
    LET source        == table[w.factor_dataset]
        transport_key == FirstKeyContaining(source, "Transport -")
        base == <<<<"distance_km", number_input(w, "Distance (km)")>>,
                  <<"weight_tonnes", number_input(w, "Weight transported (tonnes)")>> >>
    IN  IF transport_key = "None"
        THEN Collected(Put(base, "transport_factor", Num(0)),
                       <<TransportWarning(w.factor_dataset)>>)
        ELSE Collected(Put(base, "transport_factor", factor_or_zero(source, transport_key)),
                       <<>>)

InvestmentsInputs(table, w) ==
    Collected(
      <<<<"investee_emissions", number_input(w, "Investee emissions (kgCO2e)")>>,
        <<"outstanding_amount", number_input(w, "Outstanding amount invested")>>,
        <<"evic", number_input(w, "Enterprise value including cash (EVIC)")>> >>,
      <<>>)

UseOfSoldProductsInputs(table, w) ==
    LET source   == table[w.factor_dataset]
        grid_key == FirstKeyContaining(source, "Grid Electricity")
        base == <<<<"lifetime_years", number_input(w, "Product lifetime (years)")>>,
                  <<"annual_usage_kwh", number_input(w, "Annual usage (kWh/year)")>> >>
    IN  IF grid_key = "None"
        THEN Collected(Put(base, "grid_factor", Num(0)), <<GridWarning(w.factor_dataset)>>)
        ELSE Collected(Put(base, "grid_factor", factor_or_zero(source, grid_key)), <<>>)

GenericInputs(table, w) ==
    Collected(
      <<<<"method", w.method>>,
        <<"quantity", number_input(w, "Activity quantity")>>,
        <<"generic_factor", number_input(w, "Emission factor (kgCO2e/unit)")>> >>,
      <<>>)

CollectInputs(table, w) ==
    IF w.category = "Business Travel" THEN BusinessTravelInputs(table, w)
    ELSE IF Contains(w.category, "Transportation") THEN TransportInputs(table, w)
    ELSE IF w.category = "Investments" THEN InvestmentsInputs(table, w)
    ELSE IF w.category = "Use of Sold Products" THEN UseOfSoldProductsInputs(table, w)
    ELSE GenericInputs(table, w)

(* str(inputs): the dict's items, in insertion order, as "key: value" text *)
(* items; a value is kept as the number or label the text spells out.      *)
str(inputs) == [i \in DOMAIN inputs |-> [key |-> inputs[i][1], value |-> inputs[i][2]]]

(* datetime.now(): every wall-clock reading is the one abstract value. *)
Timestamp == "datetime.now()"

(* Mutant: the method the engine returned is the one scored. *)
ScoredMethod_FromEngine(w, calc_method) == calc_method

(* The "Add Entry" handler: the quality method it scores is the one the    *)
(* "Method hierarchy" widget holds, not the method the engine returned.    *)
ScoredMethod(w, calc_method) == w.quality_method

new_row(w, inputs, calc, quality) ==
    [Date |-> Timestamp,
     Category |-> w.category,
     Source |-> w.factor_dataset,
     Method |-> calc.method,
     Emissions |-> RoundHalfEven(calc.emissions, 100),
     Coverage |-> w.coverage_pct,
     CombinedUncertainty |-> quality.combined_uncertainty,
     DataQualityScore |-> quality.score,
     Details |-> str(inputs)]

(* Mutant: the new row is concatenated in front. *)
concat_Prepend(ledger, row) == <<row>> \o ledger

(* pd.concat([data, DataFrame([new_row])], ignore_index=True) *)
concat(ledger, row) == Append(ledger, row)

(* if add_button: ... ; an exception of the engine or of the scorer ends   *)
(* the run before the ledger is assigned.                                  *)
AddHandler(ledger, w, inputs) ==
    LET Outcome(calc, quality) ==
            IF calc.raised
            THEN [data |-> ledger, status |-> calc.exc, calc |-> calc]
            ELSE IF quality.raised
            THEN [data |-> ledger, status |-> quality.exc, calc |-> calc]
            ELSE [data |-> concat(ledger, new_row(w, inputs, calc, quality)),
                  status |-> "added", calc |-> calc]
        Scored(calc) ==
            Outcome(calc,
                    calculate_data_quality(ScoredMethod(w, calc.method),
                        w.activity_uncertainty, w.factor_uncertainty, w.coverage_pct))
    IN  Scored(calculate_emissions(w.category, inputs))

(* One run of the script, top to bottom. *)
Script(table, ledger, w, add_button) ==
    LET Shown(collected, handled) ==
            IF add_button
            THEN [data |-> handled.data, warnings |-> collected.warnings,
                  status |-> handled.status]
            ELSE [data |-> ledger, warnings |-> collected.warnings, status |-> "ok"]
        Handled(collected) ==
            Shown(collected, AddHandler(ledger, w, collected.inputs))
    IN  Handled(CollectInputs(table, w))

QualityWidgets(w) ==
    <<w.quality_method, w.activity_uncertainty, w.factor_uncertainty, w.coverage_pct>>

----------------------------------------------------------------------------
(* Bounds of the model. *)

MaxEntries == 2      \* rows the ledger may hold before "Add Entry" is cut off
MaxValue == 2        \* engine input values range over -1 .. MaxValue
PctStep == 20        \* scorer percentages lie on a grid of this step ...
PctOver == 1         \* ... reaching PctOver steps below 0 and above 100

(* The sliders' and the quality selectbox's defaults. *)
DefaultQualityMethod == METHOD_HIERARCHY[2][1]
DefaultActivityUncertainty == 20
DefaultFactorUncertainty == 15
DefaultCoverage == 85

SelectableMethods == {METHOD_HIERARCHY[i][1] : i \in DOMAIN METHOD_HIERARCHY}
Sources == DOMAIN EMISSION_FACTORS
TravelClasses == {"Air Economy", "Air Business"}

NumberLabels ==
    {"Travel distance (km)", "Hotel nights", "Distance (km)",
     "Weight transported (tonnes)", "Investee emissions (kgCO2e)",
     "Outstanding amount invested", "Enterprise value including cash (EVIC)",
     "Product lifetime (years)", "Annual usage (kWh/year)",
     "Activity quantity", "Emission factor (kgCO2e/unit)"}

(* Number inputs as a session's user leaves them: all at the widgets'      *)
(* default 0.0, or filled in with the worked figures of the design notes   *)
(* (EVIC left at 0).                                                       *)
UntouchedForm == [l \in NumberLabels |-> Num(0)]
FilledForm ==
    [l \in NumberLabels |->
        CASE l = "Travel distance (km)" -> Num(1000)
          [] l = "Hotel nights" -> Num(2)
          [] l = "Distance (km)" -> Num(100)
          [] l = "Weight transported (tonnes)" -> Num(2)
          [] l = "Investee emissions (kgCO2e)" -> Num(1000)
          [] l = "Outstanding amount invested" -> Num(50)
          [] l = "Enterprise value including cash (EVIC)" -> Num(0)
          [] l = "Product lifetime (years)" -> Num(10)
          [] l = "Annual usage (kWh/year)" -> Num(500)
          [] l = "Activity quantity" -> Num(3)
          [] OTHER -> Rat(5, 2)]
DefaultQuality ==
    <<DefaultQualityMethod, DefaultActivityUncertainty, DefaultFactorUncertainty,
      DefaultCoverage>>
QualityChoices == {DefaultQuality, <<"Proxy Estimate", 100, 0, 40>>}

Widgets(category, source, travel_class, form, method, q) ==
    [category |-> category, factor_dataset |-> source, travel_class |-> travel_class,
     number |-> form, method |-> method, quality_method |-> q[1],
     activity_uncertainty |-> q[2], factor_uncertainty |-> q[3], coverage_pct |-> q[4]]

(* The widget values a run may see, for the categories, forms and quality  *)
(* settings given; a widget its branch does not render keeps its default.  *)
WidgetSets(categories, forms, qualities, methods) ==
    UNION {
      IF c = "Business Travel"
      THEN {Widgets(c, s, t, f, "Supplier-Specific", q) :
              s \in Sources, t \in TravelClasses, f \in forms, q \in qualities}
      ELSE IF Contains(c, "Transportation") \/ c \in {"Investments", "Use of Sold Products"}
      THEN {Widgets(c, s, "Air Economy", f, "Supplier-Specific", q) :
              s \in Sources, f \in forms, q \in qualities}
      ELSE {Widgets(c, s, "Air Economy", f, m, q) :
              s \in Sources, f \in forms, q \in qualities, m \in methods}
      : c \in categories}

(* One category per branch of the input collection. *)
UserCategories ==
    {"Business Travel", "Upstream Transportation & Distribution", "Investments",
     "Use of Sold Products", "Purchased Goods and Services"}
LookupCategories ==
    {"Business Travel", "Downstream Transportation & Distribution", "Use of Sold Products"}

UserMethods == {"Supplier-Specific", "Spend-Based"}

UserWidgets == WidgetSets(UserCategories, {FilledForm}, QualityChoices, UserMethods)
SelectionWidgets ==
    WidgetSets(UserCategories, {UntouchedForm}, {DefaultQuality}, {"Supplier-Specific"})
LookupWidgets ==
    WidgetSets(LookupCategories, {FilledForm}, {DefaultQuality}, {"Supplier-Specific"})

----------------------------------------------------------------------------
(* The session: script reruns and "Add Entry" clicks. *)

NoCall == [fn |-> "none"]
NoRet == [done |-> FALSE]

Init ==
    /\ factors = EMISSION_FACTORS
    /\ data = <<>>
    /\ qlog = <<>>
    /\ warnings = <<>>
    /\ status = "ok"
    /\ call = NoCall
    /\ ret = NoRet

(* A widget other than the button changed: the script reruns. *)
Rerun(W) ==
    \E w \in W :
        \E run \in {Script(factors, data, w, FALSE)} :
            /\ data' = run.data
            /\ warnings' = run.warnings
            /\ status' = run.status
            /\ UNCHANGED <<factors, qlog, call, ret>>

(* "Add Entry" was clicked: the script reruns with add_button set. *)
AddEntry(W) ==
    /\ Len(data) < MaxEntries
    /\ \E w \in W :
        \E run \in {Script(factors, data, w, TRUE)} :
            /\ data' = run.data
            /\ warnings' = run.warnings
            /\ status' = run.status
            /\ qlog' = IF run.status = "added" THEN Append(qlog, QualityWidgets(w)) ELSE qlog
            /\ UNCHANGED <<factors, call, ret>>

Next == Rerun(SelectionWidgets) \/ AddEntry(UserWidgets)

Spec == Init /\ [][Next]_vars

(* The same session over a registry that lacks factors: the shipped table  *)
(* with one factor, or a source's whole factor set, left out.              *)
DropFactor(table, source, i) ==
    [table EXCEPT ![source] =
        [j \in 1..(Len(@) - 1) |-> IF j < i THEN @[j] ELSE @[j + 1]]]

RegistryChoices ==
    {EMISSION_FACTORS}
    \cup {DropFactor(EMISSION_FACTORS, s, i) :
            s \in Sources, i \in 1..Len(EMISSION_FACTORS.EPA)}
    \cup {[EMISSION_FACTORS EXCEPT ![s] = <<>>] : s \in Sources}

InitRegistry ==
    /\ factors \in RegistryChoices
    /\ data = <<>>
    /\ qlog = <<>>
    /\ warnings = <<>>
    /\ status = "ok"
    /\ call = NoCall
    /\ ret = NoRet

NextRegistry == Rerun(LookupWidgets) \/ AddEntry(LookupWidgets)

SpecRegistry == InitRegistry /\ [][NextRegistry]_vars

----------------------------------------------------------------------------
(* Direct calls of the calculation engine: any label, any input record,    *)
(* fields present or absent.                                               *)

EngineValues == {Num(k) : k \in -1..MaxValue}

(* The dicts over the given keys, each key absent or bound to one of vals, *)
(* in the order of keys.                                                   *)
RECURSIVE DictsOver(_, _)
DictsOver(keys, vals) ==
    IF keys = <<>> THEN {<<>>}
    ELSE LET rest == DictsOver(Tail(keys), vals)
         IN  rest \cup {<<<<Head(keys), v>>>> \o d : v \in vals, d \in rest}

MethodLabels == SelectableMethods \cup {"Hybrid"}

GenericDicts ==
    LET numbers == DictsOver(<<"quantity", "generic_factor">>, EngineValues)
    IN  numbers \cup {<<<<"method", m>>>> \o d : m \in MethodLabels, d \in numbers}

(* The worked calls of the design notes. *)
ExampleDicts ==
    {<<<<"distance_km", Num(1000)>>, <<"travel_factor", Rat(158, 1000)>>,
       <<"hotel_nights", Num(2)>>, <<"hotel_factor", Rat(145, 10)>> >>,
     <<<<"investee_emissions", Num(1000)>>, <<"outstanding_amount", Num(50)>>,
       <<"evic", Num(0)>> >>,
     <<<<"distance_km", Num(100)>>, <<"weight_tonnes", Num(2)>>,
       <<"transport_factor", Rat(122, 1000)>> >>}

EngineInputs ==
    DictsOver(<<"distance_km", "travel_factor", "hotel_nights", "hotel_factor">>, EngineValues)
    \cup DictsOver(<<"distance_km", "weight_tonnes", "transport_factor">>, EngineValues)
    \cup DictsOver(<<"investee_emissions", "outstanding_amount", "evic">>, EngineValues)
    \cup DictsOver(<<"lifetime_years", "annual_usage_kwh", "grid_factor">>, EngineValues)
    \cup GenericDicts
    \cup ExampleDicts

EngineLabels ==
    {CATEGORIES[i] : i \in DOMAIN CATEGORIES}
    \cup {"Rail Transportation", "business travel", "Investment"}

InitEngine ==
    /\ factors = EMISSION_FACTORS
    /\ data = <<>>
    /\ qlog = <<>>
    /\ warnings = <<>>
    /\ status = "ok"
    /\ call \in {[fn |-> "calculate_emissions", category |-> c, inputs |-> d] :
                    c \in EngineLabels, d \in EngineInputs}
    /\ ret = NoRet

(* The add handler run on the record as given: calculate_emissions is      *)
(* called, and its result, or its exception, decides the ledger.           *)
DirectAdd ==
    /\ call.fn = "calculate_emissions"
    /\ ~ret.done
    /\ LET w == Widgets(call.category, "EPA", "Air Economy", UntouchedForm,
                        "Supplier-Specific", DefaultQuality)
           handled == AddHandler(data, w, call.inputs)
       IN  /\ ret' = [done |-> TRUE, value |-> handled.calc]
           /\ data' = handled.data
           /\ status' = handled.status
           /\ qlog' = IF handled.status = "added"
                      THEN Append(qlog, QualityWidgets(w)) ELSE qlog
    /\ UNCHANGED <<factors, warnings, call>>

NextEngine == DirectAdd

SpecEngine == InitEngine /\ [][NextEngine]_vars

(* Direct calls of the scorer: any method label, percentages below 0 and   *)
(* above 100 included.                                                     *)
Pcts ==
    {k * PctStep : k \in (-PctOver)..((100 \div PctStep) + PctOver)}
    \cup {DefaultActivityUncertainty, DefaultFactorUncertainty, DefaultCoverage}

ScorerMethods == SelectableMethods \cup {"PCAF Financed Emissions", "Unknown-Method"}

InitScorer ==
    /\ factors = EMISSION_FACTORS
    /\ data = <<>>
    /\ qlog = <<>>
    /\ warnings = <<>>
    /\ status = "ok"
    /\ call \in {[fn |-> "calculate_data_quality", method |-> m, activity |-> a,
                  factor |-> f, coverage |-> c] :
                    m \in ScorerMethods, a \in Pcts, f \in Pcts, c \in Pcts}
    /\ ret = NoRet

CallScorer ==
    /\ call.fn = "calculate_data_quality"
    /\ ~ret.done
    /\ ret' = [done |-> TRUE,
               value |-> calculate_data_quality(call.method, call.activity,
                                                call.factor, call.coverage)]
    /\ UNCHANGED <<factors, data, qlog, warnings, status, call>>

NextScorer == CallScorer

SpecScorer == InitScorer /\ [][NextScorer]_vars

----------------------------------------------------------------------------
(* Properties of the calculation engine (SpecEngine). *)

CallIsEngine == call.fn = "calculate_emissions" /\ ret.done

TravelFields == {"distance_km", "travel_factor", "hotel_nights", "hotel_factor"}
TransportFields == {"distance_km", "weight_tonnes", "transport_factor"}
InvestmentFields == {"investee_emissions", "outstanding_amount", "evic"}
UsePhaseFields == {"lifetime_years", "annual_usage_kwh", "grid_factor"}

(* The formula family of a label, first matching pattern first. *)
FamilyOf(label) ==
    IF label = "Business Travel" THEN "travel"
    ELSE IF Substring(label, "Transportation") THEN "transport"
    ELSE IF label = "Investments" THEN "investments"
    ELSE IF label = "Use of Sold Products" THEN "use"
    ELSE "generic"

FieldsOf(family) ==
    CASE family = "travel" -> TravelFields
      [] family = "transport" -> TransportFields
      [] family = "investments" -> InvestmentFields
      [] family = "use" -> UsePhaseFields
      [] OTHER -> {}

(* The family of each of the 15 GHG categories, by number. *)
FamilyByNumber(i) ==
    CASE i = 6 -> "travel"
      [] i \in {4, 9} -> "transport"
      [] i = 15 -> "investments"
      [] i = 11 -> "use"
      [] OTHER -> "generic"

ExpectedResult(family, d) ==
    CASE family = "travel" ->
           Returns(RAdd(RMul(Get(d, "distance_km"), Get(d, "travel_factor")),
                        RMul(Get(d, "hotel_nights"), Get(d, "hotel_factor"))),
                   "Activity-Based")
      [] family = "transport" ->
           Returns(RMul(Get(d, "distance_km"),
                        RMul(Get(d, "weight_tonnes"), Get(d, "transport_factor"))),
                   "Activity-Based")
      [] family = "investments" ->
           Returns(IF Get(d, "evic").n = 0 THEN Num(0)
                   ELSE RDiv(RMul(Get(d, "investee_emissions"), Get(d, "outstanding_amount")),
                             Get(d, "evic")),
                   "PCAF Financed Emissions")
      [] family = "use" ->
           Returns(RMul(Get(d, "lifetime_years"),
                        RMul(Get(d, "annual_usage_kwh"), Get(d, "grid_factor"))),
                   "Activity-Based")
      [] OTHER ->
           Returns(RMul(IF Has(d, "quantity") THEN Get(d, "quantity") ELSE Num(0),
                        IF Has(d, "generic_factor") THEN Get(d, "generic_factor") ELSE Num(0)),
                   IF Has(d, "method") THEN Get(d, "method") ELSE "Average-Data")

(* C1: for every label and every record holding the fields its formula     *)
(* needs, calculate_emissions returns the formula and the method of the    *)
(* first matching pattern (Business Travel, contains "Transportation",     *)
(* Investments, Use of Sold Products, else generic with absent fields as 0 *)
(* and "Average-Data" as the default method); categories 4 and 9 are the   *)
(* transport ones and the ten categories matching no pattern are generic.  *)
C1_FirstMatchingFormula ==
    /\ \A i \in DOMAIN CATEGORIES : FamilyOf(CATEGORIES[i]) = FamilyByNumber(i)
    /\ Cardinality({i \in DOMAIN CATEGORIES : FamilyByNumber(i) = "generic"}) = 10
    /\ CallIsEngine =>
         LET family == IF \E i \in DOMAIN CATEGORIES : CATEGORIES[i] = call.category
                       THEN FamilyByNumber(CHOOSE i \in DOMAIN CATEGORIES :
                                               CATEGORIES[i] = call.category)
                       ELSE FamilyOf(call.category)
         IN  FieldsOf(family) \subseteq Keys(call.inputs)
               => ret.value = ExpectedResult(family, call.inputs)

(* The worked transport call: category 4, 100 km, 2 t, 0.122 -> 24.4. *)
C1_Witness ==
    /\ CallIsEngine
    /\ call.category = CATEGORIES[4]
    /\ TransportFields \subseteq Keys(call.inputs)
    /\ ~ret.value.raised
    /\ ret.value.emissions = Rat(244, 10)
    /\ ret.value.method = "Activity-Based"

(* Whether the exception's message names the text. *)
Mentions(e, text) == \E i \in DOMAIN e.args : Substring(e.args[i], text)

MissingFields == FieldsOf(FamilyOf(call.category)) \ Keys(call.inputs)

(* C2: when the category matches one of the four specific families and    *)
(* the record lacks a field the family's formula requires, the call fails  *)
(* with an error that identifies the missing field and the category, no    *)
(* result is computed from a default, and no ledger row is appended.       *)
C2_FailsFastNamingFieldAndCategory ==
    (CallIsEngine /\ MissingFields # {}) =>
        /\ ret.value.raised
        /\ \E f \in MissingFields : Mentions(ret.value, f)
        /\ Mentions(ret.value, call.category)
        /\ data = <<>>
        /\ status # "added"

(* C3: for "Investments" with its three fields, evic = 0 gives emissions 0 *)
(* with method "PCAF Financed Emissions" and no fault; evic # 0 gives      *)
(* investee_emissions * (outstanding_amount / evic).                       *)
C3_InvestmentsAttribution ==
    (CallIsEngine /\ call.category = "Investments"
       /\ InvestmentFields \subseteq Keys(call.inputs)) =>
        LET evic == Get(call.inputs, "evic")
            financed == RMul(Get(call.inputs, "investee_emissions"),
                             Get(call.inputs, "outstanding_amount"))
        IN  /\ ~ret.value.raised
            /\ ret.value.method = "PCAF Financed Emissions"
            /\ evic.n = 0 => ret.value.emissions = Num(0)
            /\ evic.n # 0 => RMul(ret.value.emissions, evic) = financed

(* The worked call: 1000 kgCO2e, 50 outstanding, EVIC 0 -> 0. *)
C3_Witness ==
    /\ CallIsEngine
    /\ call.category = "Investments"
    /\ call.inputs = <<<<"investee_emissions", Num(1000)>>,
                       <<"outstanding_amount", Num(50)>>, <<"evic", Num(0)>> >>
    /\ ~ret.value.raised
    /\ ret.value.emissions = Num(0)

ResultMethods == SelectableMethods \cup {"PCAF Financed Emissions"}

NumbersNonNegative(d) == \A i \in DOMAIN d : d[i][1] # "method" => d[i][2].n >= 0

MethodFieldSelectable(d) == Has(d, "method") => Get(d, "method") \in SelectableMethods

RowsWellFormed ==
    \A i \in DOMAIN data : data[i].Emissions >= 0 /\ data[i].Method \in ResultMethods

(* C10 as stated: every result for a record whose numeric fields are all   *)
(* non-negative, and every ledger row made from one, has emissions >= 0    *)
(* and a method among the five hierarchy labels and the PCAF label.        *)
C10_ResultWellFormed ==
    (CallIsEngine /\ ~ret.value.raised /\ NumbersNonNegative(call.inputs)) =>
        /\ ret.value.emissions.n >= 0
        /\ ret.value.method \in ResultMethods
        /\ RowsWellFormed

(* C10 as amended: the same, for records whose method field, when present, *)
(* is one of the five hierarchy labels.                                    *)
C10_ResultWellFormedForSelectableMethod ==
    (CallIsEngine /\ ~ret.value.raised /\ NumbersNonNegative(call.inputs)
       /\ MethodFieldSelectable(call.inputs)) =>
        /\ ret.value.emissions.n >= 0
        /\ ret.value.method \in ResultMethods
        /\ RowsWellFormed

C10_Witness ==
    /\ CallIsEngine
    /\ call.category = "Franchises"
    /\ Has(call.inputs, "method")
    /\ Get(call.inputs, "method") = "Spend-Based"
    /\ NumbersNonNegative(call.inputs)
    /\ ~ret.value.raised
    /\ ret.value.emissions.n > 0
    /\ Len(data) = 1
    /\ data[1].Method = "Spend-Based"
    /\ data[1].Emissions > 0

----------------------------------------------------------------------------
(* Properties of the scorer (SpecScorer). *)

CallIsScorer == call.fn = "calculate_data_quality" /\ ret.done

ScoreAt(method, activity, factor, coverage) ==
    calculate_data_quality(method, activity, factor, coverage).score

(* C5 as stated: raising coverage never lowers the score, and raising      *)
(* either uncertainty never raises it, whatever the other inputs.          *)
C5_Monotone ==
    CallIsScorer =>
        \A x \in Pcts :
            /\ x >= call.coverage =>
                 ScoreAt(call.method, call.activity, call.factor, x) >= ret.value.score
            /\ x >= call.activity =>
                 ScoreAt(call.method, x, call.factor, call.coverage) <= ret.value.score
            /\ x >= call.factor =>
                 ScoreAt(call.method, call.activity, x, call.coverage) <= ret.value.score

(* C5 as amended: the same, the uncertainty that is raised being >= 0. *)
C5_MonotoneForNonNegativeUncertainty ==
    CallIsScorer =>
        \A x \in Pcts :
            /\ x >= call.coverage =>
                 ScoreAt(call.method, call.activity, call.factor, x) >= ret.value.score
            /\ (call.activity >= 0 /\ x >= call.activity) =>
                 ScoreAt(call.method, x, call.factor, call.coverage) <= ret.value.score
            /\ (call.factor >= 0 /\ x >= call.factor) =>
                 ScoreAt(call.method, call.activity, x, call.coverage) <= ret.value.score

(* A call whose score strictly falls with more activity uncertainty and    *)
(* strictly rises with more coverage.                                      *)
C5_Witness ==
    /\ CallIsScorer
    /\ call.activity >= 0
    /\ \E x \in Pcts : x > call.activity
          /\ ScoreAt(call.method, x, call.factor, call.coverage) < ret.value.score
    /\ \E x \in Pcts : x > call.coverage
          /\ ScoreAt(call.method, call.activity, call.factor, x) > ret.value.score

RankOf(method) ==
    CASE method = "Supplier-Specific" -> 5
      [] method = "Activity-Based" -> 4
      [] method = "Average-Data" -> 3
      [] method = "Spend-Based" -> 2
      [] OTHER -> 1

Clamp(x, lo, hi) == IF x < lo THEN lo ELSE IF x > hi THEN hi ELSE x

(* Whether the integer n is sqrt(s) rounded to the nearest integer. *)
IsRoundedSqrt(n, s) ==
    /\ n >= 0
    /\ (n = 0 \/ (2 * n - 1) * (2 * n - 1) <= 4 * s)
    /\ 4 * s <= (2 * n + 1) * (2 * n + 1)

(* C6: the score is 100 * (0.4*rank/5 + 0.3*max(0, 1 - U/100)              *)
(* + 0.3*clamp(coverage/100, 0, 1)) to one decimal, U = sqrt(a^2 + f^2),   *)
(* with every label outside the five ranked 1; in tenths that is           *)
(* 80*rank + 3*clamp(coverage, 0, 100) + max(0, 300 - 3*U).                *)
C6_ScoreFormula ==
    CallIsScorer =>
        LET S == call.activity * call.activity + call.factor * call.factor
            fixed == 80 * RankOf(call.method) + 3 * Clamp(call.coverage, 0, 100)
        IN  /\ S >= 10000 => ret.value.score = fixed
            /\ S < 10000 => IsRoundedSqrt(fixed + 300 - ret.value.score, 9 * S)
            /\ (call.method = "Activity-Based" /\ call.activity = 20
                  /\ call.factor = 15 /\ call.coverage = 85) => ret.value.score = 800
            /\ (call.method = "Unknown-Method" /\ call.activity = 0
                  /\ call.factor = 0 /\ call.coverage = 100) => ret.value.score = 680
            /\ call.method = "PCAF Financed Emissions" =>
                 ret.value.score =
                   ScoreAt("Proxy Estimate", call.activity, call.factor, call.coverage)

C6_Witness ==
    /\ CallIsScorer
    /\ call.method = "PCAF Financed Emissions"
    /\ call.activity = 20 /\ call.factor = 15 /\ call.coverage = 85
    /\ ret.value.score = 80 + 225 + 255

----------------------------------------------------------------------------
(* Properties of the session (Spec, SpecRegistry). *)

(* C7: the ledger starts empty and is append-only: a successful add puts   *)
(* exactly one row at the end, every earlier row keeps its place and its   *)
(* values, and a rerun without an add leaves the ledger as it was.         *)
C7_AppendOnly ==
    /\ data = <<>>
    /\ [][/\ \A i \in DOMAIN data : i \in DOMAIN data' /\ data'[i] = data[i]
          /\ status' = "added" =>
               /\ Len(data') = Len(data) + 1
               /\ data'[Len(data')].Coverage = qlog'[Len(data')][4]
          /\ status' # "added" => data' = data]_vars

C7_Witness ==
    /\ Len(data) = 2
    /\ status = "added"
    /\ data[1].Category # data[2].Category

(* C9: two rows added with equal quality widgets hold the same score and   *)
(* combined uncertainty, whatever else differs between them.               *)
C9_QualityFromQualityWidgetsOnly ==
    \A i \in DOMAIN data : \A j \in DOMAIN data :
        qlog[i] = qlog[j] =>
            /\ data[i].DataQualityScore = data[j].DataQualityScore
            /\ data[i].CombinedUncertainty = data[j].CombinedUncertainty

C9_Witness ==
    /\ Len(data) = 2
    /\ qlog[1] = qlog[2]
    /\ data[1].Category # data[2].Category
    /\ data[1].Source # data[2].Source
    /\ data[1].Method # data[2].Method
    /\ data[1].Emissions # data[2].Emissions
    /\ data[1].Method # qlog[1][1]
    /\ data[1].DataQualityScore = data[2].DataQualityScore

Detail(row, key) ==
    row.Details[CHOOSE i \in DOMAIN row.Details : row.Details[i].key = key].value

Warned(message) == \E i \in DOMAIN warnings : warnings[i] = message

(* The factor named key: absent from the source with 0 substituted and the *)
(* warning surfaced, or present with its coefficient used and no warning.  *)
NamedFactorHandled(source, key, used, message) ==
    \/ /\ ~Has(source, key)
       /\ used = Num(0)
       /\ Warned(message)
    \/ /\ Has(source, key)
       /\ used = Get(source, key)
       /\ ~Warned(message)

(* The same for the factor whose name contains text. *)
MatchingFactorHandled(source, text, used, message) ==
    LET found == {i \in DOMAIN source : Substring(source[i][1], text)}
    IN  \/ /\ found = {}
           /\ used = Num(0)
           /\ Warned(message)
        \/ /\ found # {}
           /\ \E i \in found : used = source[i][2]
           /\ ~Warned(message)

(* C8: when the factor the category needs is absent from the selected      *)
(* source, 0.0 is substituted, a warning is surfaced and the add still     *)
(* completes; when it is present, its coefficient is used unchanged and no *)
(* warning is surfaced; no run ends in an exception.                       *)
C8_AbsentFactorFallsBackToZero ==
    /\ status \in {"ok", "added"}
    /\ status = "added" =>
         LET row == data[Len(data)]
             source == factors[row.Source]
         IN  /\ row.Category = "Business Travel" =>
                  /\ \E t \in TravelClasses :
                        NamedFactorHandled(source, travel_key(t),
                            Detail(row, "travel_factor"),
                            TravelWarning(travel_key(t), row.Source))
                  /\ NamedFactorHandled(source, hotel_key, Detail(row, "hotel_factor"),
                        HotelWarning(hotel_key, row.Source))
             /\ Substring(row.Category, "Transportation") =>
                  MatchingFactorHandled(source, "Transport -",
                      Detail(row, "transport_factor"), TransportWarning(row.Source))
             /\ row.Category = "Use of Sold Products" =>
                  MatchingFactorHandled(source, "Grid Electricity",
                      Detail(row, "grid_factor"), GridWarning(row.Source))

(* An add for Business Travel from a source without the hotel factor. *)
C8_Witness ==
    /\ status = "added"
    /\ data[Len(data)].Category = "Business Travel"
    /\ ~Has(factors[data[Len(data)].Source], hotel_key)
    /\ Detail(data[Len(data)], "hotel_factor") = Num(0)
    /\ Detail(data[Len(data)], "travel_factor") # Num(0)
    /\ Len(warnings) = 1

====
